---- MODULE Spec2Model ----
(***************************************************************************)
(* State-machine model of AIOtest.py: the in-memory user/token store and   *)
(* its four auth endpoints, the two PDF endpoints, and the two job-search  *)
(* endpoints with the ThreadPoolExecutor used by /api/jobs.                *)
(***************************************************************************)
EXTENDS Integers, Sequences, FiniteSets, TLC

(* ------------------------------ bounds -------------------------------- *)
\* number of tokens secrets.token_hex may hand out in one run
MaxTokens == 2
\* pages of an uploaded document, and characters of one page's text
MaxPages == 2
MaxPageLen == 2
\* /api/jobs requests issued concurrently (more than the pool has workers)
NumRequests == 6
\* records in one provider answer
MaxJobs == 2

(* --------------------------- value domains ---------------------------- *)
\* Python's None for an Optional[str]; it is outside the string domain Str
None == "None"
\* strings a client may send as username: the empty string (falsy in Python)
\* and a non-empty one
Str == {"", "a"}
Passwords == {"p", "q"}
\* strings a client may send as login identifier: a username or an email
Identifiers == Str \cup {"e"}
\* UserIn.email: Optional[str] = None, or any string
EmailInputs == Identifiers \cup {None}
\* UserIn: username, password, email
UserIn == [username : Str, password : Passwords, email : EmailInputs]
\* token values; one that was not issued yet stands for an unknown token
TokenIds == 1..MaxTokens
\* the Authorization header: <<scheme, token>>, "Bearer <token>" or another scheme
Headers == ({"Bearer"} \X TokenIds) \cup {<<"Basic", 1>>}

\* Python truthiness of an Optional[str]: None and "" are falsy
Truthy(s) == s # None /\ s # ""

\* hashlib.sha256(password).hexdigest(): deterministic, the digest is not the
\* password, and equal digests mean equal passwords
hash_password(password) == <<"sha256", password>>

VARIABLES
  users,      \* dict users, in insertion order: sequence of [key, password, email]
  tokens,     \* dict tokens: function token -> username
  nextToken,  \* tokens issued so far + 1 (token_hex never repeats a value)
  supplied,   \* history: the <<username, password, email>> of each successful register, in order
  revoked,    \* history: tokens for which a logout has succeeded
  last,       \* the last auth request and its response
  pdfLast,    \* the last PDF request, its response and the advisory calls it made
  credential, \* the value of the environment variable RAPIDAPI_KEY2
  requests,   \* the /api/jobs requests of this run
  pc,         \* request -> "new", "queued", "running", "returned", "done"
  queue,      \* the executor's work queue (FIFO)
  fetched,    \* request -> outcome of fetch_jobs_from_jsearch held by its future
  resp,       \* request -> the response of get_jobs
  calls,      \* history: request -> number of requests.get calls made for it
  answered,   \* history: request -> what the provider answered to it
  searchLast, \* the last /api/search request: response and number of requests.get calls
  inflight    \* auth requests that arrived together: each one and its response

authVars == <<users, tokens, nextToken, supplied, revoked, last>>
pdfVars == <<pdfLast>>
jobVars == <<credential, requests, pc, queue, fetched, resp, calls, answered, searchLast>>
raceVars == <<inflight>>

(* ----------------------- dict helpers for users ------------------------ *)
\* the keys of the dict
UserKeys == {users[i].key : i \in 1..Len(users)}
\* position of key k in users, 0 when absent (users.get(k) is None)
IndexOfKey(us, k) ==
  IF \E i \in 1..Len(us) : us[i].key = k
  THEN CHOOSE i \in 1..Len(us) : us[i].key = k
  ELSE 0
\* the value stored under an entry: {"password": ..., "email": ...}
ValueOf(e) == <<e.password, e.email>>
\* first position (insertion order) among the positions I, 0 when there is none
FirstIndex(I) == IF I = {} THEN 0 ELSE CHOOSE i \in I : \A j \in I : i <= j

\* any(u.get("email") == email for u in users.values())
EmailTaken(us, email) == \E i \in 1..Len(us) : us[i].email = email

\* the response record of an auth request
Response(op, input, status, detail, out) ==
  [op |-> op, input |-> input, status |-> status, detail |-> detail, out |-> out]

(* ------------------------------ register ------------------------------- *)
\* the email-uniqueness test of register: only a truthy email is checked
RegisterEmailClash(us, email) == Truthy(email) /\ EmailTaken(us, email)

\* a register that looks the username up among the emails
UsernameExistsAsEmail(us, username) == EmailTaken(us, username)

\* a register without the username test
UsernameExistsNever(us, username) == FALSE

\* user.username in users
UsernameExists(us, username) == IndexOfKey(us, username) # 0

\* users[key] = {"password": password, "email": email}: a new key goes to the
\* end of the dict, an existing key keeps its place and gets the new value
DictSet(us, key, password, email) ==
  LET entry == [key |-> key, password |-> password, email |-> email] IN
  IF IndexOfKey(us, key) = 0
  THEN Append(us, entry)
  ELSE [us EXCEPT ![IndexOfKey(us, key)] = entry]

register(user) ==
  LET input == <<user.username, user.email>> IN
  IF UsernameExists(users, user.username)
  THEN /\ last' = Response("register", input, 400, "Username already exists", <<>>)
       /\ UNCHANGED <<users, tokens, nextToken, supplied, revoked>>
  ELSE IF RegisterEmailClash(users, user.email)
  THEN /\ last' = Response("register", input, 400, "Email already registered", <<>>)
       /\ UNCHANGED <<users, tokens, nextToken, supplied, revoked>>
  ELSE /\ users' = DictSet(users, user.username, hash_password(user.password), user.email)
       /\ supplied' = Append(supplied, <<user.username, user.password, user.email>>)
       /\ last' = Response("register", input, 200, "User registered", <<>>)
       /\ UNCHANGED <<tokens, nextToken, revoked>>

(* ------------------------------- login --------------------------------- *)
\* a login that looks the identifier up among the emails first
MatchedIndexEmailFirst(us, identifier) ==
  IF \E j \in 1..Len(us) : us[j].email = identifier
  THEN FirstIndex({j \in 1..Len(us) : us[j].email = identifier})
  ELSE IndexOfKey(us, identifier)

\* a login that looks the identifier up among the usernames only
MatchedIndexNoEmail(us, identifier) == IndexOfKey(us, identifier)

\* record = users.get(identifier); if not record: first entry whose email
\* equals the identifier. 0 when no record matches.
MatchedIndex(us, identifier) ==
  IF IndexOfKey(us, identifier) # 0
  THEN IndexOfKey(us, identifier)
  ELSE FirstIndex({j \in 1..Len(us) : us[j].email = identifier})

\* a login that binds the token to the email of the matched record
BoundEmail(us, i) == us[i].email

\* next((k for k, v in users.items() if v == record), None)
BoundUsername(us, i) ==
  us[FirstIndex({j \in 1..Len(us) : ValueOf(us[j]) = ValueOf(us[i])})].key

login(identifier, password) ==
  LET input == <<identifier, password>>
      i == MatchedIndex(users, identifier)
  IN
  IF i = 0 \/ users[i].password # hash_password(password)
  THEN /\ last' = Response("login", input, 401, "Invalid username/email or password", <<>>)
       /\ UNCHANGED <<users, tokens, nextToken, supplied, revoked>>
  ELSE /\ nextToken <= MaxTokens
       /\ LET token == nextToken IN
          /\ tokens' = [t \in DOMAIN tokens \cup {token} |->
                          IF t = token THEN BoundUsername(users, i) ELSE tokens[t]]
          /\ last' = Response("login", input, 200, "", <<token>>)
       /\ nextToken' = nextToken + 1
       /\ UNCHANGED <<users, supplied, revoked>>

(* ------------------------------ profile -------------------------------- *)
\* authorization.startswith("Bearer ")
IsBearer(authorization) == authorization[1] = "Bearer"
\* authorization.split(" ")[1]
HeaderToken(authorization) == authorization[2]

\* what profile answers to a header when the dicts are us and tks
ProfileResponse(us, tks, authorization) ==
  IF ~IsBearer(authorization)
  THEN Response("profile", authorization, 401, "Invalid auth header", <<>>)
  ELSE LET token == HeaderToken(authorization) IN
       \* username = tokens.get(token); if not username: 401
       IF token \notin DOMAIN tks \/ ~Truthy(tks[token])
       THEN Response("profile", authorization, 401, "Invalid token", <<>>)
       ELSE LET username == tks[token] IN
            \* user = users.get(username): on None, user.get raises AttributeError,
            \* which no handler catches and the server answers with 500
            IF IndexOfKey(us, username) = 0
            THEN Response("profile", authorization, 500, "Internal Server Error", <<>>)
            ELSE LET user == us[IndexOfKey(us, username)] IN
                 Response("profile", authorization, 200, "", <<username, user.email>>)

profile(authorization) ==
  /\ last' = ProfileResponse(users, tokens, authorization)
  /\ UNCHANGED <<users, tokens, nextToken, supplied, revoked>>

(* ------------------------------- logout -------------------------------- *)
\* a logout that removes every token of the token's user
DelTokensOfUser(tks, token) ==
  [t \in {x \in DOMAIN tks : tks[x] # tks[token]} |-> tks[t]]

\* a logout that answers but leaves the token in the map
DelTokenKept(tks, token) == tks

\* del tokens[token]
DelToken(tks, token) == [t \in DOMAIN tks \ {token} |-> tks[t]]

logout(authorization) ==
  IF ~IsBearer(authorization)
  THEN /\ last' = Response("logout", authorization, 401, "Invalid auth header", <<>>)
       /\ UNCHANGED <<users, tokens, nextToken, supplied, revoked>>
  ELSE LET token == HeaderToken(authorization) IN
       IF token \notin DOMAIN tokens
       THEN /\ last' = Response("logout", authorization, 401, "Invalid token", <<>>)
            /\ UNCHANGED <<users, tokens, nextToken, supplied, revoked>>
       ELSE /\ tokens' = DelToken(tokens, token)
            /\ revoked' = revoked \cup {token}
            /\ last' = Response("logout", authorization, 200, "Logged out successfully", <<>>)
            /\ UNCHANGED <<users, nextToken, supplied>>

(* --------------------------- the auth machine -------------------------- *)
EmptyFn == [x \in {} |-> x]

AuthInit ==
  /\ users = <<>>
  /\ tokens = EmptyFn
  /\ nextToken = 1
  /\ supplied = <<>>
  /\ revoked = {}
  /\ last = Response("start", <<>>, 0, "", <<>>)


(* ============================ PDF endpoints ============================ *)
\* text is a sequence of characters; " " is the whitespace str.strip removes
Chars == {"x", " "}
Whitespace == {" "}
RECURSIVE TextsUpTo(_)
TextsUpTo(n) ==
  IF n = 0 THEN {<<>>}
  ELSE TextsUpTo(n - 1) \cup
       {Append(t, c) : t \in {u \in TextsUpTo(n - 1) : Len(u) = n - 1}, c \in Chars}
Texts == TextsUpTo(MaxPageLen)

\* what page.extract_text() does on a page: returns a str, returns None, or raises
Pages == [kind : {"text"}, text : Texts] \cup
         {[kind |-> "none", text |-> <<>>], [kind |-> "raise", text |-> <<>>]}
RECURSIVE PageListsUpTo(_)
PageListsUpTo(n) ==
  IF n = 0 THEN {<<>>}
  ELSE PageListsUpTo(n - 1) \cup
       {Append(l, pg) : l \in {m \in PageListsUpTo(n - 1) : Len(m) = n - 1}, pg \in Pages}
\* an upload: PdfReader either opens the container or raises
Docs == [opens : {TRUE}, pages : PageListsUpTo(MaxPages)] \cup
        {[opens |-> FALSE, pages |-> <<>>]}

\* str.strip()
RECURSIVE LStrip(_)
LStrip(t) == IF t # <<>> /\ Head(t) \in Whitespace THEN LStrip(Tail(t)) ELSE t
RECURSIVE RStrip(_)
RStrip(t) ==
  IF t # <<>> /\ t[Len(t)] \in Whitespace THEN RStrip(SubSeq(t, 1, Len(t) - 1)) ELSE t
Strip(t) == RStrip(LStrip(t))

\* page.extract_text() or ""
PageText(pg) == IF pg.kind = "text" THEN pg.text ELSE <<>>

\* a join that puts a blank between pages
RECURSIVE JoinPagesSpaced(_)
JoinPagesSpaced(pages) ==
  IF pages = <<>> THEN <<>>
  ELSE IF Len(pages) = 1 THEN PageText(pages[1])
  ELSE PageText(Head(pages)) \o <<" ">> \o JoinPagesSpaced(Tail(pages))

\* "".join(page.extract_text() or "" for page in reader.pages)
RECURSIVE JoinPages(_)
JoinPages(pages) ==
  IF pages = <<>> THEN <<>>
  ELSE PageText(Head(pages)) \o JoinPages(Tail(pages))

\* the try body raises before the text is complete: PdfReader cannot open the
\* upload, or extract_text raises on some page
ExtractionRaises(doc) ==
  ~doc.opens \/ \E i \in 1..Len(doc.pages) : doc.pages[i].kind = "raise"

\* a blank test that forgets to strip
IsBlankUnstripped(text) == text = <<>>

\* not full_text.strip()
IsBlank(text) == Strip(text) = <<>>

NoTextWarning == "No extractable text found."
NoTextResponse == "No extractable text found in the PDF."

PdfResponse(op, doc, status, text, warning, sent) ==
  [op |-> op, doc |-> doc, status |-> status, text |-> text,
   warning |-> warning, calls |-> sent]

extract_pdf_text(doc) ==
  /\ pdfLast.op = "upload" /\ doc = pdfLast.doc
  /\ IF ExtractionRaises(doc)
     THEN pdfLast' = PdfResponse("extract_pdf_text", doc, 500, "Failed to extract PDF", "", <<>>)
     ELSE LET full_text == JoinPages(doc.pages) IN
          IF ~IsBlank(full_text)
          THEN pdfLast' = PdfResponse("extract_pdf_text", doc, 200, full_text, "", <<>>)
          ELSE pdfLast' = PdfResponse("extract_pdf_text", doc, 200, <<>>, NoTextWarning, <<>>)

\* what client.chat.completions.create does: raises, or returns a message
\* whose content is None or a str
AdvisoryReplies == [kind : {"text"}, text : Texts] \cup
                   {[kind |-> "none", text |-> <<>>], [kind |-> "raise", text |-> <<>>]}

analyze_pdf(doc, reply) ==
  /\ pdfLast.op = "upload" /\ doc = pdfLast.doc
  /\ IF ExtractionRaises(doc)
     THEN pdfLast' = PdfResponse("analyze_pdf", doc, 500, "Failed to analyze PDF", "", <<>>)
     ELSE LET text == JoinPages(doc.pages) IN
          IF IsBlank(text)
          THEN pdfLast' = PdfResponse("analyze_pdf", doc, 200, NoTextResponse, "", <<>>)
          ELSE \* one chat-completion call with the text as user content; a raise of
               \* the call, or .strip() on a None content, ends in the except clause
               IF reply.kind = "text"
               THEN pdfLast' = PdfResponse("analyze_pdf", doc, 200, Strip(reply.text), "",
                                           <<text>>)
               ELSE pdfLast' = PdfResponse("analyze_pdf", doc, 500, "Failed to analyze PDF", "",
                                           <<text>>)

\* a PDF request arrives with one upload out of docs; the endpoints share no state
PdfInit(docs) == \E doc \in docs : pdfLast = PdfResponse("upload", doc, 0, "", "", <<>>)
NoUpload == {[opens |-> FALSE, pages |-> <<>>]}


(* =========================== job-search endpoints ====================== *)
\* executor = ThreadPoolExecutor(max_workers=5)
max_workers == 5

\* os.getenv("RAPIDAPI_KEY2"): unset, set to "", or set to a key
Credentials == {None, "", "key"}

\* the upstream fields read with a plain job.get(field, default)
FlatFields == {"job_title", "employer_name", "job_min_salary", "job_max_salary",
               "job_employment_type", "job_city", "job_country", "job_description",
               "employer_logo", "job_is_remote", "job_posted_at_datetime_utc",
               "job_apply_link"}
\* the value a provider record carries in a field that is present
FieldValue(f) == IF f = "job_is_remote" THEN TRUE ELSE "v"
\* job_required_experience and job_highlights are objects, with or without
\* the inner key that get_jobs reads
Experiences == {[x \in {} |-> x], [required_qualification |-> "v"]}
Highlights == {[x \in {} |-> x], [Qualifications |-> <<"v">>]}
NestedParts ==
  {[x \in {} |-> x]} \cup
  {[job_required_experience |-> e] : e \in Experiences} \cup
  {[job_highlights |-> h] : h \in Highlights} \cup
  {[job_required_experience |-> e, job_highlights |-> h] : e \in Experiences, h \in Highlights}
\* every provider record: any subset of the fields absent
ProviderRecords ==
  {[f \in S |-> FieldValue(f)] @@ n : S \in SUBSET FlatFields, n \in NestedParts}
EmptyJob == [x \in {} |-> x]
FullJob == [f \in FlatFields |-> FieldValue(f)] @@
           [job_required_experience |-> [required_qualification |-> "v"],
            job_highlights |-> [Qualifications |-> <<"v">>]]
NoLogoJob == [f \in FlatFields \ {"employer_logo", "job_is_remote"} |-> FieldValue(f)] @@
             [job_highlights |-> [x \in {} |-> x]]
SampleRecords == {EmptyJob, FullJob, NoLogoJob}
RECURSIVE SampleListsUpTo(_)
SampleListsUpTo(n) ==
  IF n = 0 THEN {<<>>}
  ELSE SampleListsUpTo(n - 1) \cup
       {Append(l, j) : l \in {m \in SampleListsUpTo(n - 1) : Len(m) = n - 1},
                       j \in SampleRecords}
\* the "data" lists of a provider answer: every record alone, and every list
\* of up to MaxJobs sample records
JobLists == {<<j>> : j \in ProviderRecords} \cup SampleListsUpTo(MaxJobs)

\* the body of an HTTP response: not JSON, a JSON object without "data", or a
\* JSON object with a "data" list
Body(json, data) == [json |-> json, data |-> data]
HttpAnswer(status, body) == [kind |-> "response", status |-> status, body |-> body]
\* requests.get raises without a response (connection failure)
NoAnswer == [kind |-> "no_response", status |-> 0, body |-> Body("invalid", <<>>)]
\* the provider has not answered yet
Pending == [kind |-> "pending", status |-> 0, body |-> Body("invalid", <<>>)]
Statuses == {200, 304, 404, 503}
PlainBodies == {Body("invalid", <<>>), Body("nodata", <<>>), Body("data", <<>>),
                Body("data", <<FullJob>>)}
PlainAnswers == {NoAnswer} \cup {HttpAnswer(st, b) : st \in Statuses, b \in PlainBodies}
ProviderAnswers == PlainAnswers \cup {HttpAnswer(200, Body("data", l)) : l \in JobLists}
\* the answers of the provider while the pool is exercised: success or outage
PoolAnswers == {HttpAnswer(200, Body("data", <<>>)), HttpAnswer(503, Body("invalid", <<>>))}

\* a raise_for_status that lets client errors through
RaisesForServerErrorOnly(status) == status >= 500 /\ status < 600

\* response.raise_for_status(): raises HTTPError for a 4xx or 5xx status
RaisesForStatus(status) == status >= 400 /\ status < 600

Raised(exc) == [kind |-> "raise", exc |-> exc, data |-> <<>>]
Returned(data) == [kind |-> "return", exc |-> "", data |-> data]

\* fetch_jobs_from_jsearch once requests.get has the provider's answer
fetch_jobs_from_jsearch(ans) ==
  IF ans.kind = "no_response" THEN Raised("ConnectionError")
  ELSE IF RaisesForStatus(ans.status) THEN Raised("HTTPError")
  ELSE IF ans.body.json = "invalid" THEN Raised("JSONDecodeError")
  ELSE IF ans.body.json = "nodata" THEN Returned(<<>>)
  ELSE Returned(ans.body.data)

\* job.get(field, default)
JobGet(job, field, default) == IF field \in DOMAIN job THEN job[field] ELSE default

\* a normalisation that leaves out the logo of a record that has none
NormalizeJobNoLogo(job) ==
  LET full == [title |-> JobGet(job, "job_title", "N/A"),
               company |-> JobGet(job, "employer_name", "N/A"),
               salary |-> JobGet(job, "job_min_salary", "N/A"),
               max_salary |-> JobGet(job, "job_max_salary", "N/A"),
               employment_type |-> JobGet(job, "job_employment_type", "N/A"),
               location |-> JobGet(job, "job_city", "N/A"),
               country |-> JobGet(job, "job_country", "N/A"),
               description |-> JobGet(job, "job_description", "N/A"),
               requirements |-> JobGet(JobGet(job, "job_required_experience", EmptyJob),
                                       "required_qualification", "N/A"),
               highlights |-> JobGet(JobGet(job, "job_highlights", EmptyJob),
                                     "Qualifications", <<>>),
               logo |-> JobGet(job, "employer_logo", None),
               remote |-> JobGet(job, "job_is_remote", FALSE),
               date_posted |-> JobGet(job, "job_posted_at_datetime_utc", "N/A"),
               apply_link |-> JobGet(job, "job_apply_link", "N/A")]
  IN IF "employer_logo" \in DOMAIN job THEN full
     ELSE [k \in DOMAIN full \ {"logo"} |-> full[k]]

\* one element of the results list of get_jobs
NormalizeJob(job) ==
  [title |-> JobGet(job, "job_title", "N/A"),
   company |-> JobGet(job, "employer_name", "N/A"),
   salary |-> JobGet(job, "job_min_salary", "N/A"),
   max_salary |-> JobGet(job, "job_max_salary", "N/A"),
   employment_type |-> JobGet(job, "job_employment_type", "N/A"),
   location |-> JobGet(job, "job_city", "N/A"),
   country |-> JobGet(job, "job_country", "N/A"),
   description |-> JobGet(job, "job_description", "N/A"),
   requirements |-> JobGet(JobGet(job, "job_required_experience", EmptyJob),
                           "required_qualification", "N/A"),
   highlights |-> JobGet(JobGet(job, "job_highlights", EmptyJob), "Qualifications", <<>>),
   logo |-> JobGet(job, "employer_logo", None),
   remote |-> JobGet(job, "job_is_remote", FALSE),
   date_posted |-> JobGet(job, "job_posted_at_datetime_utc", "N/A"),
   apply_link |-> JobGet(job, "job_apply_link", "N/A")]

JobsResponse(status, detail, data) == [status |-> status, detail |-> detail, data |-> data]
NoResponse == JobsResponse(0, "", <<>>)
NoOutcome == [kind |-> "none", exc |-> "", data |-> <<>>]

\* a pool that starts a thread for every queued item
HasIdleWorkerUnbounded(running) == TRUE

\* a worker thread is free to take the next work item
HasIdleWorker(running) == Cardinality(running) < max_workers

Running == {r \in requests : pc[r] = "running"}

\* get_jobs up to its await: run_in_executor puts the call on the executor's queue.
\* The requests are numbered in the order in which the loop starts their handlers.
get_jobs_submit(r) ==
  /\ pc[r] = "new"
  /\ \A q \in requests : q < r => pc[q] # "new"
  /\ pc' = [pc EXCEPT ![r] = "queued"]
  /\ queue' = Append(queue, r)
  /\ UNCHANGED <<credential, requests, fetched, resp, calls, answered, searchLast>>

\* a worker thread takes the oldest work item and enters
\* fetch_jobs_from_jsearch, which issues requests.get whatever os.getenv gave
worker_start(r) ==
  /\ queue # <<>> /\ r = Head(queue)
  /\ HasIdleWorker(Running)
  /\ queue' = Tail(queue)
  /\ pc' = [pc EXCEPT ![r] = "running"]
  /\ calls' = [calls EXCEPT ![r] = @ + 1]
  /\ UNCHANGED <<credential, requests, fetched, resp, answered, searchLast>>

\* requests.get comes back; the rest of fetch_jobs_from_jsearch runs and the
\* future gets its result or exception
worker_return(r, ans) ==
  /\ pc[r] = "running"
  /\ pc' = [pc EXCEPT ![r] = "returned"]
  /\ fetched' = [fetched EXCEPT ![r] = fetch_jobs_from_jsearch(ans)]
  /\ answered' = [answered EXCEPT ![r] = ans]
  /\ UNCHANGED <<credential, requests, queue, resp, calls, searchLast>>

\* get_jobs after its await: the list comprehension, or an except clause
get_jobs_resume(r) ==
  /\ pc[r] = "returned"
  /\ pc' = [pc EXCEPT ![r] = "done"]
  /\ resp' = [resp EXCEPT ![r] =
       IF fetched[r].kind = "return"
       THEN JobsResponse(200, "", [i \in 1..Len(fetched[r].data) |->
                                     NormalizeJob(fetched[r].data[i])])
       ELSE IF fetched[r].exc = "HTTPError"
       THEN JobsResponse(502, "External API error", <<>>)
       ELSE JobsResponse(500, "Internal server error", <<>>)]
  /\ fetched' = [fetched EXCEPT ![r] = NoOutcome]
  /\ UNCHANGED <<credential, requests, queue, calls, answered, searchLast>>

SearchResponse(status, detail, content, ncalls) ==
  [op |-> "search", status |-> status, detail |-> detail, content |-> content,
   calls |-> ncalls]

\* search_jobs: the whole handler; RAPIDAPI_KEY is the environment variable
\* as read when the module was loaded
search_jobs(ans) ==
  /\ IF ~Truthy(credential)
     THEN searchLast' = SearchResponse(500, "Missing API key", Body("invalid", <<>>), 0)
     ELSE IF \/ ans.kind = "no_response"
             \/ RaisesForStatus(ans.status)
             \/ ans.body.json = "invalid"
     THEN searchLast' = SearchResponse(500, "Job search failed.", Body("invalid", <<>>), 1)
     ELSE searchLast' = SearchResponse(200, "", ans.body, 1)
  /\ UNCHANGED <<credential, requests, pc, queue, fetched, resp, calls, answered>>

\* search_jobs is a coroutine without an await: from its first statement to
\* its return, requests.get included, it runs on the event loop's thread.
\* search_jobs_call is the handler up to the moment requests.get is entered
\* (or up to the early return without a credential) ...
search_jobs_call ==
  /\ searchLast.op # "calling"
  /\ IF ~Truthy(credential)
     THEN searchLast' = SearchResponse(500, "Missing API key", Body("invalid", <<>>), 0)
     ELSE searchLast' = [op |-> "calling", status |-> 0, detail |-> "",
                         content |-> Body("invalid", <<>>), calls |-> 1]
  /\ UNCHANGED <<credential, requests, pc, queue, fetched, resp, calls, answered>>

\* ... and search_jobs_return is the rest of it, once requests.get is back
search_jobs_return(ans) ==
  /\ searchLast.op = "calling"
  /\ IF \/ ans.kind = "no_response"
        \/ RaisesForStatus(ans.status)
        \/ ans.body.json = "invalid"
     THEN searchLast' = SearchResponse(500, "Job search failed.", Body("invalid", <<>>), 1)
     ELSE searchLast' = SearchResponse(200, "", ans.body, 1)
  /\ UNCHANGED <<credential, requests, pc, queue, fetched, resp, calls, answered>>

\* the event loop's thread is not inside a handler: it can start or resume one
LoopFree == searchLast.op # "calling"

JobsInit(n, creds) ==
  /\ credential \in creds
  /\ requests = 1..n
  /\ pc = [r \in 1..n |-> "new"]
  /\ queue = <<>>
  /\ fetched = [r \in 1..n |-> NoOutcome]
  /\ resp = [r \in 1..n |-> NoResponse]
  /\ calls = [r \in 1..n |-> 0]
  /\ answered = [r \in 1..n |-> Pending]
  /\ searchLast = [op |-> "start", status |-> 0, detail |-> "",
                   content |-> Body("invalid", <<>>), calls |-> 0]

(* ============================ specifications =========================== *)
\* no auth request is waiting for the loop
NoneInFlight == inflight = <<>>
vars == <<authVars, pdfVars, jobVars, raceVars>>

\* the process after start-up, no /api/jobs request issued
Idle == AuthInit /\ PdfInit(NoUpload) /\ JobsInit(0, {"key"}) /\ NoneInFlight

\* the auth endpoints, called in any order with any input
Register == (\E user \in UserIn : register(user)) /\ UNCHANGED <<pdfVars, jobVars, raceVars>>
Login ==
  /\ \E identifier \in Identifiers, password \in Passwords : login(identifier, password)
  /\ UNCHANGED <<pdfVars, jobVars, raceVars>>
Profile ==
  (\E authorization \in Headers : profile(authorization)) /\ UNCHANGED <<pdfVars, jobVars, raceVars>>
Logout ==
  (\E authorization \in Headers : logout(authorization)) /\ UNCHANGED <<pdfVars, jobVars, raceVars>>
AuthNext == Register \/ Login \/ Profile \/ Logout
SpecAuth == Idle /\ [][AuthNext]_vars

\* the PDF endpoints, called with any upload
ExtractPdfText == extract_pdf_text(pdfLast.doc) /\ UNCHANGED <<authVars, jobVars, raceVars>>
AnalyzePdf ==
  /\ \E reply \in AdvisoryReplies : analyze_pdf(pdfLast.doc, reply)
  /\ UNCHANGED <<authVars, jobVars, raceVars>>
PdfNext == ExtractPdfText \/ AnalyzePdf
PdfStart == AuthInit /\ PdfInit(Docs) /\ JobsInit(0, {"key"}) /\ NoneInFlight
SpecPdf == PdfStart /\ [][PdfNext]_vars

GetJobsSubmit == (\E r \in requests : get_jobs_submit(r)) /\ UNCHANGED <<authVars, pdfVars, raceVars>>
WorkerStart == (\E r \in requests : worker_start(r)) /\ UNCHANGED <<authVars, pdfVars, raceVars>>
WorkerReturn(Answers) ==
  /\ \E r \in requests : pc[r] = "running" /\ \E ans \in Answers : worker_return(r, ans)
  /\ UNCHANGED <<authVars, pdfVars, raceVars>>
GetJobsResume == (\E r \in requests : get_jobs_resume(r)) /\ UNCHANGED <<authVars, pdfVars, raceVars>>
SearchJobs == (\E ans \in PlainAnswers : search_jobs(ans)) /\ UNCHANGED <<authVars, pdfVars, raceVars>>
\* the provider answers or fails in one of the plain ways
PlainReturn == WorkerReturn(PlainAnswers)
\* the provider answers anything, any list of records included
AnyReturn == WorkerReturn(ProviderAnswers)
\* the provider answers while the pool is exercised
PoolReturn == WorkerReturn(PoolAnswers)

\* one /api/jobs request and any number of /api/search requests, with or
\* without the credential, against a provider that may answer or fail
JobsNext == GetJobsSubmit \/ WorkerStart \/ PlainReturn \/ GetJobsResume \/ SearchJobs
JobsStart == AuthInit /\ PdfInit(NoUpload) /\ JobsInit(1, Credentials) /\ NoneInFlight
SpecJobs == JobsStart /\ [][JobsNext]_vars

\* one /api/jobs request against a provider that answers any list of records
NormalizeNext == GetJobsSubmit \/ WorkerStart \/ AnyReturn \/ GetJobsResume
NormalizeStart == AuthInit /\ PdfInit(NoUpload) /\ JobsInit(1, {"key"}) /\ NoneInFlight
SpecNormalize == NormalizeStart /\ [][NormalizeNext]_vars

\* NumRequests concurrent /api/jobs requests; the loop runs every handler,
\* the pool's threads run, and every outbound call returns
PoolNext == GetJobsSubmit \/ WorkerStart \/ PoolReturn \/ GetJobsResume
PoolStart == AuthInit /\ PdfInit(NoUpload) /\ JobsInit(NumRequests, {"key"}) /\ NoneInFlight
SpecPool == PoolStart /\ [][PoolNext]_vars /\ WF_vars(PoolNext)

\* the event loop with one /api/jobs request, /api/search requests and
\* register and login requests arriving at any time. A handler step needs the
\* loop's thread; the pool's threads run beside it.
LoopRegister == LoopFree /\ Register
LoopLogin == LoopFree /\ Login
LoopGetJobsSubmit == LoopFree /\ GetJobsSubmit
LoopGetJobsResume == LoopFree /\ GetJobsResume
SearchJobsCall == LoopFree /\ search_jobs_call /\ UNCHANGED <<authVars, pdfVars, raceVars>>
SearchJobsReturn ==
  (\E ans \in PoolAnswers : search_jobs_return(ans)) /\ UNCHANGED <<authVars, pdfVars, raceVars>>
LoopNext ==
  \/ LoopRegister \/ LoopLogin \/ LoopGetJobsSubmit \/ WorkerStart \/ PoolReturn
  \/ LoopGetJobsResume \/ SearchJobsCall \/ SearchJobsReturn
LoopStart == AuthInit /\ PdfInit(NoUpload) /\ JobsInit(1, {"key"}) /\ NoneInFlight
SpecLoop == LoopStart /\ [][LoopNext]_vars

\* Concurrent auth requests. register, login and logout are coroutines
\* without an await, so once the loop starts one it runs to its return before
\* the loop starts another: a handler is one step. Two requests are waiting
\* at the loop together and the loop runs their handlers in either order.
\* A request the server has accepted; status 0: its handler has not run.
\* ok tells whether the handler would have succeeded had it run on arrival.
AuthRequest(op, arg, ok) ==
  [op |-> op, arg |-> arg, ok |-> ok, status |-> 0, detail |-> "", out |-> <<>>]
RegisterWouldSucceed(user) ==
  ~UsernameExists(users, user.username) /\ ~RegisterEmailClash(users, user.email)
LoginWouldSucceed(identifier, password) ==
  LET i == MatchedIndex(users, identifier) IN
  i # 0 /\ users[i].password = hash_password(password)
LogoutWouldSucceed(authorization) ==
  IsBearer(authorization) /\ HeaderToken(authorization) \in DOMAIN tokens
\* every accepted request has its response
AllAnswered == \A i \in DOMAIN inflight : inflight[i].status # 0
\* the response of the handler that runs in this step, kept with its request
Answer(pair, i) ==
  [pair EXCEPT ![i].status = last'.status, ![i].detail = last'.detail,
               ![i].out = last'.out]
Waiting(op) == {i \in DOMAIN inflight : inflight[i].op = op /\ inflight[i].status = 0}
\* the bodies of the racing register requests
RacingUsers == {user \in UserIn : user.email \in {None, "e"}}

\* two register requests for one username are waiting; the loop runs the
\* handler of one of them (the pair is written in the order the loop picks)
FirstRegister ==
  /\ AllAnswered
  /\ \E u1 \in RacingUsers, u2 \in RacingUsers :
       /\ u1.username = u2.username
       /\ LET pair == <<AuthRequest("register", u1, RegisterWouldSucceed(u1)),
                        AuthRequest("register", u2, RegisterWouldSucceed(u2))>>
          IN register(u1) /\ inflight' = Answer(pair, 1)
  /\ UNCHANGED <<pdfVars, jobVars>>
\* two login requests with one identifier are waiting; the loop runs one
FirstLogin ==
  /\ AllAnswered
  /\ \E identifier \in Str, p1 \in Passwords, p2 \in Passwords :
       LET pair == <<AuthRequest("login", <<identifier, p1>>,
                                 LoginWouldSucceed(identifier, p1)),
                     AuthRequest("login", <<identifier, p2>>,
                                 LoginWouldSucceed(identifier, p2))>>
       IN login(identifier, p1) /\ inflight' = Answer(pair, 1)
  /\ UNCHANGED <<pdfVars, jobVars>>
\* two logout requests with one header are waiting; the loop runs one
FirstLogout ==
  /\ AllAnswered
  /\ \E authorization \in Headers :
       LET pair == <<AuthRequest("logout", authorization, LogoutWouldSucceed(authorization)),
                     AuthRequest("logout", authorization, LogoutWouldSucceed(authorization))>>
       IN logout(authorization) /\ inflight' = Answer(pair, 1)
  /\ UNCHANGED <<pdfVars, jobVars>>
\* the loop runs the handler of the request that is still waiting
SecondRegister ==
  /\ \E i \in Waiting("register") :
       register(inflight[i].arg) /\ inflight' = Answer(inflight, i)
  /\ UNCHANGED <<pdfVars, jobVars>>
SecondLogin ==
  /\ \E i \in Waiting("login") :
       login(inflight[i].arg[1], inflight[i].arg[2]) /\ inflight' = Answer(inflight, i)
  /\ UNCHANGED <<pdfVars, jobVars>>
SecondLogout ==
  /\ \E i \in Waiting("logout") :
       logout(inflight[i].arg) /\ inflight' = Answer(inflight, i)
  /\ UNCHANGED <<pdfVars, jobVars>>
RaceNext ==
  \/ FirstRegister \/ FirstLogin \/ FirstLogout
  \/ SecondRegister \/ SecondLogin \/ SecondLogout
RaceStart == AuthInit /\ PdfInit(NoUpload) /\ JobsInit(0, {"key"}) /\ NoneInFlight
SpecRace == RaceStart /\ [][RaceNext]_vars

(* ============================ auth properties ========================== *)
\* the email the user named u sent at registration
SuppliedEmail(u) == supplied[CHOOSE i \in 1..Len(supplied) : supplied[i][1] = u][3]
\* the login just answered presented the username and password of the i-th
\* registered user and got a token
LoginByUsernameOf(i) ==
  /\ last.op = "login" /\ last.status = 200
  /\ last.input = <<supplied[i][1], supplied[i][2]>>

\* C1: after a login with a registered user's own username and password,
\* profile with the returned token answers 200 with that username and the
\* email the user sent at registration (None if none).
C1_LoginThenProfileReturnsUser ==
  \A i \in 1..Len(supplied) :
    LoginByUsernameOf(i) =>
      LET answer == ProfileResponse(users, tokens, <<"Bearer", last.out[1]>>) IN
      /\ answer.status = 200
      /\ answer.out = <<supplied[i][1], supplied[i][3]>>

\* C2: register of an existing username answers 400 "Username already
\* exists", register of a new username with a supplied (non-None) email that
\* an existing record holds answers 400 "Email already registered"; both
\* leave users and tokens unchanged.
C2_DuplicateRegisterRejected ==
  [][last'.op = "register" =>
       LET username == last'.input[1]
           email == last'.input[2]
           nameUsed == \E i \in 1..Len(supplied) : supplied[i][1] = username
           emailUsed == \E i \in 1..Len(supplied) : supplied[i][3] = email
       IN /\ nameUsed =>
               /\ last'.status = 400 /\ last'.detail = "Username already exists"
               /\ users' = users /\ tokens' = tokens
          /\ (~nameUsed /\ email # None /\ emailUsed) =>
               /\ last'.status = 400 /\ last'.detail = "Email already registered"
               /\ users' = users /\ tokens' = tokens]_vars

\* C3: once logout(T) has succeeded, every later profile(T) and logout(T)
\* answers 401 "Invalid token".
C3_RevokedTokenStaysInvalid ==
  [][\A t \in revoked :
       (last'.op \in {"profile", "logout"} /\ last'.input = <<"Bearer", t>>)
         => (last'.status = 401 /\ last'.detail = "Invalid token")]_vars

\* a later profile on a logged-out token has been answered
C3_Witness ==
  /\ last.op = "profile" /\ last.status = 401
  /\ last.input[1] = "Bearer" /\ last.input[2] \in revoked

\* the login just answered presented the non-empty email and the password of
\* the i-th registered user
LoginByEmailOf(i) ==
  /\ last.op = "login"
  /\ Truthy(supplied[i][3])
  /\ last.input = <<supplied[i][3], supplied[i][2]>>
LoginBoundTo(u) ==
  /\ last.status = 200
  /\ last.out[1] \in DOMAIN tokens /\ tokens[last.out[1]] = u

\* C4 as stated: a login with a registered user's non-empty email and
\* password succeeds with a token bound to that user, whatever else is
\* registered.
C4_EmailLoginAlwaysSucceeds ==
  \A i \in 1..Len(supplied) : LoginByEmailOf(i) => LoginBoundTo(supplied[i][1])

\* C4 amended: ... provided no other registered user has that email as
\* username.
C4_EmailLoginSucceedsUnlessShadowed ==
  \A i \in 1..Len(supplied) :
    (/\ LoginByEmailOf(i)
     /\ \A j \in 1..Len(supplied) : supplied[j][1] = supplied[i][3] => j = i)
      => LoginBoundTo(supplied[i][1])

\* a login by email has been answered for the second of two registered users
\* who share a password
C4_Witness ==
  \E i \in 1..Len(supplied) :
    /\ LoginByEmailOf(i) /\ supplied[i][1] # supplied[i][3]
    /\ LoginBoundTo(supplied[i][1])
    /\ i = 2 /\ supplied[1][2] = supplied[2][2]

(* ============================ PDF properties =========================== *)
\* the text of a document, written page by page from the last page back
RECURSIVE DocText(_, _)
DocText(pages, n) ==
  IF n = 0 THEN <<>>
  ELSE DocText(pages, n - 1) \o
       (IF pages[n].kind = "text" THEN pages[n].text ELSE <<>>)
WhitespaceOnly(t) == \A i \in 1..Len(t) : t[i] \in Whitespace
\* the document opens and every page's extraction returns (a str or None)
Extractable(doc) == doc.opens /\ \A i \in 1..Len(doc.pages) : doc.pages[i].kind # "raise"

\* C8: /analyze-pdf on a document whose text is empty or whitespace-only
\* answers the fixed no-text response with zero advisory calls; otherwise it
\* makes exactly one advisory call, with the text as user content.
C8_AnalyzeCallsAdvisoryOnlyOnText ==
  (pdfLast.op = "analyze_pdf" /\ Extractable(pdfLast.doc)) =>
    LET text == DocText(pdfLast.doc.pages, Len(pdfLast.doc.pages)) IN
    IF WhitespaceOnly(text)
    THEN /\ pdfLast.calls = <<>>
         /\ pdfLast.status = 200 /\ pdfLast.text = NoTextResponse
    ELSE pdfLast.calls = <<text>>

\* an analysis of a whitespace-only, non-empty text has been answered
C8_Witness ==
  /\ pdfLast.op = "analyze_pdf" /\ Extractable(pdfLast.doc)
  /\ DocText(pdfLast.doc.pages, Len(pdfLast.doc.pages)) = <<" ">>
  /\ pdfLast.calls = <<>>

\* C9: /extract_pdf_text answers the page texts concatenated in page order
\* with no separator, a page without text counting as ""; it answers text ""
\* with a warning exactly when that concatenation is empty or whitespace-only.
C9_ExtractConcatenatesAndWarnsOnBlank ==
  (pdfLast.op = "extract_pdf_text" /\ Extractable(pdfLast.doc)) =>
    LET text == DocText(pdfLast.doc.pages, Len(pdfLast.doc.pages)) IN
    /\ pdfLast.status = 200
    /\ IF WhitespaceOnly(text)
       THEN pdfLast.text = <<>> /\ pdfLast.warning = NoTextWarning
       ELSE pdfLast.text = text /\ pdfLast.warning = ""

\* a document of one text page and one page without text has been extracted
C9_Witness ==
  /\ pdfLast.op = "extract_pdf_text"
  /\ pdfLast.doc.opens /\ Len(pdfLast.doc.pages) = 2
  /\ pdfLast.doc.pages[1] = [kind |-> "text", text |-> <<"x", "x">>]
  /\ pdfLast.doc.pages[2].kind = "none"
  /\ pdfLast.text = <<"x", "x">> /\ pdfLast.warning = ""

(* ========================= job-search properties ======================= *)
\* C5: of the concurrently issued /api/jobs requests at most 5 are inside
\* their outbound provider call at any time, and every request eventually
\* completes with a response.
C5_PoolBoundAndAllComplete ==
  /\ [](Cardinality({r \in requests : pc[r] = "running"}) <= 5)
  /\ <>(\A r \in requests : pc[r] = "done" /\ resp[r].status # 0)

\* five requests are inside their provider call and another waits in the queue
C5_Witness ==
  /\ Cardinality({r \in requests : pc[r] = "running"}) = 5
  /\ queue # <<>>

\* the provider answered request r with an HTTP status in statuses
AnsweredWithStatus(r, statuses) ==
  /\ pc[r] = "done"
  /\ answered[r].kind = "response" /\ answered[r].status \in statuses
Is502(r) == resp[r].status = 502 /\ resp[r].detail = "External API error"

NormalizedKeys == {"title", "company", "salary", "max_salary", "employment_type",
                   "location", "country", "description", "requirements",
                   "highlights", "logo", "remote", "date_posted", "apply_link"}
UpstreamOf(key) ==
  CASE key = "title" -> "job_title"
    [] key = "company" -> "employer_name"
    [] key = "salary" -> "job_min_salary"
    [] key = "max_salary" -> "job_max_salary"
    [] key = "employment_type" -> "job_employment_type"
    [] key = "location" -> "job_city"
    [] key = "country" -> "job_country"
    [] key = "description" -> "job_description"
    [] key = "requirements" -> "job_required_experience"
    [] key = "highlights" -> "job_highlights"
    [] key = "logo" -> "employer_logo"
    [] key = "remote" -> "job_is_remote"
    [] key = "date_posted" -> "job_posted_at_datetime_utc"
    [] key = "apply_link" -> "job_apply_link"
InnerKeyOf(key) ==
  IF key = "requirements" THEN "required_qualification" ELSE "Qualifications"
PlaceholderOf(key) ==
  CASE key = "logo" -> None
    [] key = "remote" -> FALSE
    [] key = "highlights" -> <<>>
    [] OTHER -> "N/A"
\* the value key must have in the normalized form of job
ExpectedValue(job, key) ==
  IF UpstreamOf(key) \notin DOMAIN job THEN PlaceholderOf(key)
  ELSE IF key \notin {"requirements", "highlights"} THEN job[UpstreamOf(key)]
  ELSE IF InnerKeyOf(key) \notin DOMAIN job[UpstreamOf(key)] THEN PlaceholderOf(key)
  ELSE job[UpstreamOf(key)][InnerKeyOf(key)]

\* C7: whatever fields the provider's records lack, /api/jobs succeeds with
\* one normalized record per provider record, in the same order, each with
\* every key of the normalized shape and the placeholder for each absent field.
C7_AbsentFieldsGetPlaceholders ==
  \A r \in requests :
    (AnsweredWithStatus(r, {200}) /\ answered[r].body.json = "data") =>
      LET jobs == answered[r].body.data
          out == resp[r].data
      IN /\ resp[r].status = 200
         /\ Len(out) = Len(jobs)
         /\ \A i \in 1..Len(jobs) :
              /\ DOMAIN out[i] = NormalizedKeys
              /\ \A key \in NormalizedKeys : out[i][key] = ExpectedValue(jobs[i], key)

\* a list of two different records, the second without employer_logo and
\* job_is_remote, has been normalized
C7_Witness ==
  \E r \in requests :
    /\ AnsweredWithStatus(r, {200})
    /\ answered[r].body = Body("data", <<EmptyJob, NoLogoJob>>)
    /\ Len(resp[r].data) = 2
    /\ resp[r].data[1].title = "N/A"
    /\ resp[r].data[2].title = "v"
    /\ resp[r].data[2].logo = None /\ resp[r].data[2].remote = FALSE

\* C10: with the provider credential missing, /api/search and /api/jobs make
\* no provider call and end with the misconfiguration error.
C10_MissingCredentialFailsBeforeCall ==
  credential = None =>
    /\ \A r \in requests :
         /\ calls[r] = 0
         /\ pc[r] = "done" =>
              (resp[r].status = 500 /\ resp[r].detail = "Missing API key")
    /\ searchLast.op = "search" =>
         /\ searchLast.calls = 0
         /\ searchLast.status = 500 /\ searchLast.detail = "Missing API key"
(* ============================ loop properties ========================== *)
\* a call to the job-search provider is in flight: requests.get was entered
\* and is not back, for /api/jobs or for /api/search
ProviderCallInFlight ==
  \/ \E r \in requests : pc[r] = "running"
  \/ searchLast.op = "calling"

\* C11: while a call to the job-search provider is in flight, from /api/jobs
\* or from /api/search, the event loop can run another request: a register
\* request that arrives is handled.
C11_LoopRunsDuringProviderCall == ProviderCallInFlight => ENABLED LoopRegister

(* ======================= error mapping of /api/jobs ==================== *)
\* C12: on /api/jobs a provider call that obtains no HTTP response (connection
\* failure) ends in the 502 response, and a malformed JSON body of an
\* accepted response ends in the 500 response.
C12_NetworkFailureYields502 ==
  \A r \in requests :
    pc[r] = "done" =>
      /\ answered[r].kind = "no_response" => Is502(r)
      /\ (answered[r].kind = "response" /\ ~RaisesForStatus(answered[r].status)
            /\ answered[r].body.json = "invalid") => resp[r].status = 500

(* ====================== concurrent auth requests ======================= *)
\* both requests that arrived together have their responses, and each would
\* have succeeded had it been the only one
PairAnswered ==
  /\ Len(inflight) = 2 /\ AllAnswered
  /\ inflight[1].ok /\ inflight[2].ok
\* request w got status 200 and the other one the failure (status, detail)
OneWins(w, status, detail) ==
  /\ inflight[w].status = 200
  /\ inflight[3 - w].status = status /\ inflight[3 - w].detail = detail

\* C13: register, login and logout each take effect in one step, whatever
\* the order in which the handlers of concurrent requests run. Of two
\* concurrent register requests for the same free username exactly one
\* succeeds, its record is the stored one, and the other gets 400 "Username
\* already exists"; of two concurrent logout requests for the same valid
\* token exactly one succeeds and the other gets 401 "Invalid token"; two
\* concurrent successful logins insert two different tokens.
C13_ConcurrentMutationsAtomic ==
  PairAnswered =>
    LET a == inflight[1]
        b == inflight[2]
    IN
    /\ (a.op = "register" /\ a.arg.username = b.arg.username) =>
          \E w \in 1..2 :
            /\ OneWins(w, 400, "Username already exists")
            /\ Cardinality({i \in 1..Len(users) : users[i].key = a.arg.username}) = 1
            /\ users[IndexOfKey(users, a.arg.username)].password
                 = hash_password(inflight[w].arg.password)
    /\ (a.op = "logout" /\ HeaderToken(a.arg) = HeaderToken(b.arg)) =>
          /\ \E w \in 1..2 : OneWins(w, 401, "Invalid token")
          /\ HeaderToken(a.arg) \notin DOMAIN tokens
    /\ a.op = "login" =>
          /\ a.status = 200 /\ b.status = 200
          /\ a.out # b.out
          /\ {a.out[1], b.out[1]} \subseteq DOMAIN tokens

\* two register requests for one free username were waiting together with
\* different passwords; one handler ran, then the other, and both answered
C13_Witness ==
  /\ PairAnswered
  /\ inflight[1].op = "register"
  /\ inflight[1].arg.username = inflight[2].arg.username
  /\ inflight[1].arg.password # inflight[2].arg.password
  /\ inflight[2].status = 400
  /\ Len(users) = 2

(* ======================= login: usernames first ======================== *)
\* this step is a login request with its response
LoginStep == last'.op = "login" /\ last' # last

\* C14: when the identifier of a login equals a registered username, the
\* password is checked against that user's record only, whoever has the
\* identifier as email: the right password of that user gives a token, any
\* other password gives 401 "Invalid username/email or password" and no token
\* is created.
C14_UsernameMatchDecidesLogin ==
  [][LoginStep =>
       \A i \in 1..Len(supplied) :
         supplied[i][1] = last'.input[1] =>
           IF supplied[i][2] = last'.input[2]
           THEN last'.status = 200
           ELSE /\ last'.status = 401
                /\ last'.detail = "Invalid username/email or password"
                /\ tokens' = tokens /\ nextToken' = nextToken]_vars

\* a login with A's username, which is also B's email, and B's password,
\* which is not A's, was refused
C14_Witness ==
  /\ last.op = "login" /\ last.status = 401
  /\ \E i, j \in 1..Len(supplied) :
       /\ i # j
       /\ supplied[i][1] = last.input[1] /\ supplied[i][2] # last.input[2]
       /\ supplied[j][3] = last.input[1] /\ supplied[j][2] = last.input[2]

(* ========================= several tokens per user ===================== *)
\* profile with token t answers 200 with username u
ValidFor(us, tks, t, u) ==
  LET r == ProfileResponse(us, tks, <<"Bearer", t>>) IN
  r.status = 200 /\ r.out[1] = u

\* C15: every token in the map is bound to one username; a successful login
\* returns a token that was never issued before, keeps the binding of every
\* token in the map, and every token in the map that is bound to the user of
\* the new token is valid for profile after the login.
C15_SecondLoginKeepsTokensValid ==
  [][(LoginStep /\ last'.status = 200) =>
       LET new == last'.out[1] IN
       /\ new \notin DOMAIN tokens \cup revoked
       /\ DOMAIN tokens' = DOMAIN tokens \cup {new}
       /\ \A t \in DOMAIN tokens :
            /\ tokens'[t] = tokens[t]
            /\ tokens[t] = tokens'[new] => ValidFor(users', tokens', t, tokens[t])]_vars

(* ===================== page-level extraction failure =================== *)
\* C16: in /extract_pdf_text and /analyze-pdf a page whose extraction raises
\* counts as "" and the other pages' text is still used: a document that
\* opens is never answered with the extraction failure, its text is the
\* concatenation of the pages that gave text; only a document that does not
\* open is answered 500.
C16_PageFailureBecomesEmptyText ==
  pdfLast.op \in {"extract_pdf_text", "analyze_pdf"} =>
    IF ~pdfLast.doc.opens
    THEN pdfLast.status = 500
    ELSE LET text == DocText(pdfLast.doc.pages, Len(pdfLast.doc.pages)) IN
         IF pdfLast.op = "extract_pdf_text"
         THEN /\ pdfLast.status = 200
              /\ IF WhitespaceOnly(text)
                 THEN pdfLast.text = <<>> /\ pdfLast.warning = NoTextWarning
                 ELSE pdfLast.text = text /\ pdfLast.warning = ""
         ELSE IF WhitespaceOnly(text)
              THEN pdfLast.status = 200 /\ pdfLast.text = NoTextResponse
              ELSE pdfLast.calls = <<text>>

(* ========================== the user store ============================= *)
\* C17: no two records of the user store have the same username, and no two
\* have the same email when one was supplied at registration, the empty
\* string included.
C17_SuppliedEmailsDistinct ==
  \A i, j \in 1..Len(users) :
    i # j =>
      /\ users[i].key # users[j].key
      /\ users[i].email # None => users[i].email # users[j].email

\* C18: a record of the user store is never changed or removed: every step
\* (register, login, profile, logout, successful or not) leaves each existing
\* record, with its username, password hash and email, where it was, so the
\* set of registered usernames only grows.
C18_UserRecordsNeverChange ==
  [][/\ Len(users') >= Len(users)
     /\ \A i \in 1..Len(users) : users'[i] = users[i]
     /\ UserKeys \subseteq {users'[i].key : i \in 1..Len(users')}]_vars

\* a register for an existing username, with another email than the stored
\* one, was refused and the record is as it was supplied
C18_Witness ==
  /\ last.op = "register" /\ last.detail = "Username already exists"
  /\ LET i == IndexOfKey(users, last.input[1]) IN
     /\ users[i].email # last.input[2]
     /\ users[i].email = supplied[i][3]
     /\ users[i].password = hash_password(supplied[i][2])

C20_LogoutRemovesOnlyItsToken ==
  [][/\ (last'.op = "logout" /\ last'.status = 200) =>
          LET T == HeaderToken(last'.input) IN
          /\ T \in DOMAIN tokens
          /\ DOMAIN tokens' = DOMAIN tokens \ {T}
          /\ \A t \in DOMAIN tokens' :
               /\ tokens'[t] = tokens[t]
               /\ ProfileResponse(users', tokens', <<"Bearer", t>>)
                    = ProfileResponse(users, tokens, <<"Bearer", t>>)
     /\ (\/ last'.op \in {"login", "logout"} /\ last'.status = 401
         \/ last'.op = "profile") => tokens' = tokens]_vars

\* the only user held two tokens and logged out with one of them: the
\* other one is still in the map
C20_Witness ==
  /\ last.op = "logout" /\ last.status = 200
  /\ Len(users) = 1
  /\ HeaderToken(last.input) \notin DOMAIN tokens
  /\ DOMAIN tokens # {}

====
